---- MODULE Spec2Model ----
(***************************************************************************)
(* Model of the GuitarAcc basestation host tools (src/basestation).        *)
(*                                                                         *)
(* test_ui.py: main() dispatches to list_ports, the scripted flows         *)
(* (run_automated_test, write_factory_defaults, erase_config_storage) or   *)
(* the interactive terminal GuitarAccTerminal.run, which runs three        *)
(* threads: the main thread, read_thread and input_thread.                  *)
(* test_config_commands.py, test_shell_direct.py, test_config.py,          *)
(* test_midi_rt_tx.py, check_flash.py and test_persistence.py are          *)
(* stand-alone scripts that repeat the send / sleep / read pattern.        *)
(* select_port.py finds and picks the endpoint.                            *)
(*                                                                         *)
(* The device, the operator's keyboard, the operator's interrupt signal    *)
(* and serial-port failures are the environment.                           *)
(***************************************************************************)
EXTENDS Integers, Sequences, FiniteSets, TLC

(***************************************************************************)
(* Bounds of the model.                                                    *)
(***************************************************************************)
\* bytes the device emits during one run
MaxEmit == 2
\* keystrokes the operator types during one terminal session
MaxKeys == 2

(***************************************************************************)
(* Program constants.                                                      *)
(***************************************************************************)
\* test_ui.py:83  ord(char) == 3
InterruptByte == 3

\* The keys the operator may type: Ctrl+C and two printable characters.
Keys == {"^C", "a", "b"}

\* ord() of a typed character (test_ui.py:83).
Ord(c) == CASE c = "^C" -> 3
            [] c = "a"  -> 97
            [] c = "b"  -> 98

\* What the operator may answer to an input() confirmation prompt.
Typed == {"YES", "yes", "ERASE", "erase", ""}

\* The endpoint named on the command line or picked by select_port.
Port == "/dev/tty.usbmodem1"

VARIABLES
    prog,        \* the script being run
    args,        \* test_ui.py: the parsed command line
    pc,          \* position of the main thread
    exitStatus,  \* process exit status, -1 while the process runs
    ser,         \* the serial port object: "none", "open" or "closed"
    opens,       \* number of serial.Serial(...) constructions attempted
    closes,      \* number of ser.close() calls made on an open port
    running,     \* GuitarAccTerminal.running
    readerPc,    \* position of read_thread
    inputPc,     \* position of input_thread
    char,        \* input_thread: the character read from stdin
    termMode,    \* mode of the stdin terminal: "cooked" or "raw"
    oldSettings, \* input_thread: old_settings, "none" for None
    stdin,       \* keystrokes typed and not yet read
    typedKeys,   \* number of keystrokes typed so far
    inBuf,       \* bytes received from the device and not yet read
    emitted,     \* number of bytes the device has emitted
    outLog,      \* every write made to the transport, in order
    interrupted, \* a KeyboardInterrupt was delivered to the main thread
    ctrlC,       \* input_thread consumed the interrupt character
    workerErr,   \* the workers that ended on an exception
    staleIO,     \* the workers that used the transport after its close
    flow,        \* the scripted flow being run, "" when none
    confirm,     \* scripted flow: what the operator typed, "-" before
    prompts,     \* number of input() prompts shown
    step,        \* scripted flow: index of the current step
    surfaced,    \* scripted flow: what was printed for the steps so far
    failedAt,    \* scripted flow: step at which the transport raised, -1 if none
    success,     \* scripted flow: the return value, "none" before it returns
    printed,     \* the diagnostics printed so far (a set of message kinds)
    keysRead,    \* input_thread: the characters that passed the is_open test
    heldByOther, \* another session has the endpoint open
    devs,        \* select_port.py: the device paths present under /dev
    autoSelect,  \* select_port: the auto_select argument
    ports,       \* select_port: the list find_usb_modem_ports returned
    selected,    \* select_port: the value returned, "unset" before
    selection,   \* select_port: the operator's last answer, "-" before
    calls        \* the listing calls made so far and what each returned

vars == << prog, args, pc, exitStatus, ser, opens, closes, running, readerPc,
           inputPc, char, termMode, oldSettings, stdin, typedKeys, inBuf,
           emitted, outLog, interrupted, ctrlC, workerErr, staleIO, flow,
           confirm, prompts, step, surfaced, failedAt, success, printed,
           keysRead, heldByOther, devs, autoSelect, ports, selected, selection,
           calls >>

\* What no step of most handlers touches: the state of the host outside
\* the process, the diagnostics and the record of the keys read.
selVars    == << devs, autoSelect, ports, selected, selection, calls >>
hostVars   == << heldByOther, selVars >>
sideVars   == << hostVars, printed, keysRead >>
envVars    == << stdin, typedKeys, inBuf, emitted, interrupted >>
threadVars == << running, readerPc, inputPc, char, termMode, oldSettings,
                 ctrlC, workerErr, staleIO >>
flowVars   == << flow, confirm, prompts, step, surfaced, failedAt, success >>

(***************************************************************************)
(* The scripted flows: data tables consumed by the send / sleep / read     *)
(* pattern.  A step is the command text, the terminator appended to it,    *)
(* the wait window in milliseconds and whether an empty response is        *)
(* reported explicitly (an else branch printing "No response ...").        *)
(***************************************************************************)
Step(c, t, w, r) == [cmd |-> c, term |-> t, window |-> w, reportsEmpty |-> r]

\* test_ui.py run_automated_test: the commands list and the loop body.
commands ==
    << Step("help",        "\r\n", 500, TRUE),
       Step("status",      "\r\n", 500, TRUE),
       Step("config show", "\r\n", 500, TRUE),
       Step("echo off",    "\r\n", 500, TRUE),
       Step("echo on",     "\r\n", 500, TRUE),
       Step("clear",       "\r\n", 500, TRUE) >>

\* test_ui.py write_factory_defaults: step 1 prints a response only when
\* there is one, step 2 reports "No response received".
FactorySteps ==
    << Step("config unlock_default", "\r\n", 500,  FALSE),
       Step("config write_default",  "\r\n", 1000, TRUE) >>

\* test_ui.py erase_config_storage.
EraseSteps == << Step("config erase_all", "\r\n", 1500, TRUE) >>

\* test_config_commands.py: the four send_cmd calls; send_cmd has no else.
ConfigCmdSteps ==
    << Step("config show",      "\r\n", 700, FALSE),
       Step("config midi_ch 3", "\r\n", 700, FALSE),
       Step("config cc x 20",   "\r\n", 700, FALSE),
       Step("config show",      "\r\n", 700, FALSE) >>

\* test_shell_direct.py: an empty line for the prompt, then status.
ShellDirectSteps ==
    << Step("",       "\r\n", 500, TRUE),
       Step("status", "\r\n", 500, TRUE) >>

\* test_config.py: one command after select_port.
TestConfigSteps == << Step("config midi_ch 2", "\r\n", 1500, TRUE) >>

\* test_midi_rt_tx.py:47  for i in range(10)
ClockRepeats == 10

\* test_midi_rt_tx.py: send_command(ser, 'midi send_rt ' + byte)
SendRt(b) == Step("midi send_rt " \o b, "\r\n", 100, FALSE)

\* test_midi_rt_tx.py main(): an empty line for the prompt, whose response
\* is read and dropped, then the send_command calls.
MidiRtSteps ==
    << Step("", "\r\n", 100, FALSE),
       SendRt("0xFA"), SendRt("0xF8"), SendRt("0xFC") >>
    \o [i \in 1 .. ClockRepeats |-> SendRt("0xF8")]
    \o << SendRt("0x90") >>

\* check_flash.py: ser.write(b'config show\n')
CheckFlashSteps == << Step("config show", "\n", 300, FALSE) >>

\* test_persistence.py: the three writes, each ending in "\n".
PersistenceSteps ==
    << Step("config show",      "\n", 300, FALSE),
       Step("config midi_ch 5", "\n", 300, FALSE),
       Step("config show",      "\n", 300, FALSE) >>

Flows == {"run_automated_test", "write_factory_defaults",
          "erase_config_storage", "test_config_commands", "test_shell_direct",
          "test_config", "test_midi_rt_tx", "check_flash", "test_persistence"}

Steps(f) == CASE f = "run_automated_test"     -> commands
              [] f = "write_factory_defaults" -> FactorySteps
              [] f = "erase_config_storage"   -> EraseSteps
              [] f = "test_config_commands"   -> ConfigCmdSteps
              [] f = "test_shell_direct"      -> ShellDirectSteps
              [] f = "test_config"            -> TestConfigSteps
              [] f = "test_midi_rt_tx"        -> MidiRtSteps
              [] f = "check_flash"            -> CheckFlashSteps
              [] f = "test_persistence"       -> PersistenceSteps

\* The confirmation token a flow requires, "" when it has no gate.
Gate(f) == CASE f = "write_factory_defaults" -> "YES"
             [] f = "erase_config_storage"   -> "ERASE"
             [] OTHER                        -> ""

\* Whether the flow discards what has been received once after opening:
\* ser.reset_input_buffer(), or in check_flash.py and test_persistence.py a
\* ser.read_all() whose result is dropped.
Resets(f) == f \in {"run_automated_test", "write_factory_defaults",
                    "erase_config_storage", "test_config", "check_flash",
                    "test_persistence"}

\* Whether the port is the subject of a with statement, which closes it
\* when the block is left, by an exception too.
WithBlock(f) == f \in {"test_midi_rt_tx", "check_flash", "test_persistence"}

\* Whether an exception of the transport is caught by the flow.
Catches(f) == f \notin {"test_config_commands"} /\ ~WithBlock(f)

\* Whether the response is drained without testing in_waiting first:
\* ser.read(ser.in_waiting) or ser.read_all() straight after the sleep.
DrainsAlways(f) == WithBlock(f)

\* Whether what step k of the flow drained is dropped unseen.
Discards(f, k) == f = "test_midi_rt_tx" /\ k = 1

\* The scripts of the repository that are modelled.
Progs == {"test_ui", "test_config_commands", "test_shell_direct",
          "test_config", "test_midi_rt_tx", "check_flash", "test_persistence"}

\* test_ui.py main(): the argparse namespace; port "none" is None.
ArgSets == [list : BOOLEAN, port : {"none", Port}, test : BOOLEAN,
            write_defaults : BOOLEAN, erase_config : BOOLEAN]

NoArgs == [list |-> FALSE, port |-> "none", test |-> FALSE,
           write_defaults |-> FALSE, erase_config |-> FALSE]

(***************************************************************************)
(* The state after the interpreter has started the script: for test_ui.py  *)
(* after parser.parse_args(), for the stand-alone scripts at their first   *)
(* statement.  GuitarAccTerminal.__init__ sets ser = None, running = False.*)
(***************************************************************************)
\* A process that has done nothing yet.
Fresh ==
    /\ exitStatus = -1
    /\ ser = "none"
    /\ opens = 0
    /\ closes = 0
    /\ running = FALSE
    /\ readerPc = "unborn"
    /\ inputPc = "unborn"
    /\ char = ""
    /\ termMode = "cooked"
    /\ oldSettings = "none"
    /\ stdin = << >>
    /\ typedKeys = 0
    /\ inBuf = << >>
    /\ emitted = 0
    /\ outLog = << >>
    /\ interrupted = FALSE
    /\ ctrlC = FALSE
    /\ workerErr = {}
    /\ staleIO = {}
    /\ confirm = "-"
    /\ prompts = 0
    /\ step = 0
    /\ surfaced = << >>
    /\ failedAt = -1
    /\ success = "none"
    /\ printed = {}
    /\ keysRead = << >>
    /\ ports = << >>
    /\ selected = "unset"
    /\ selection = "-"
    /\ calls = << >>

Init ==
    /\ prog \in Progs
    /\ args \in (IF prog = "test_ui" THEN ArgSets ELSE {NoArgs})
    /\ pc = (IF prog = "test_ui" THEN "main"
             ELSE IF prog = "test_config" THEN "select"
             ELSE "f_open")
    /\ flow = (IF prog \in {"test_ui", "test_config"} THEN "" ELSE prog)
    /\ heldByOther \in BOOLEAN
    /\ devs = {}
    /\ autoSelect = FALSE
    /\ Fresh

(***************************************************************************)
(* test_ui.py main()                                                       *)
(***************************************************************************)
\* if args.list: list_ports(); return
MainList ==
    /\ prog = "test_ui" /\ pc = "main" /\ args.list
    /\ pc' = "exited"
    /\ exitStatus' = 0
    /\ UNCHANGED << prog, sideVars, args, ser, opens, closes, outLog >>
    /\ UNCHANGED << envVars, threadVars, flowVars >>

\* A test for None that never holds.
SelectedNoneNever(p) == FALSE

\* if args.port is None  /  if port is None  after select_port returned
SelectedNone(p) == p = "none"

\* if args.port is None: args.port = select_port(auto_select=True);
\* if it is still None: print("No port selected. Exiting."); sys.exit(1)
MainSelectPort ==
    /\ prog = "test_ui" /\ pc = "main" /\ ~args.list /\ args.port = "none"
    /\ \E p \in {"none", Port} :
         IF SelectedNone(p)
         THEN /\ printed' = printed \cup {"no_port_selected"}
              /\ pc' = "exited"
              /\ exitStatus' = 1
              /\ args' = args
         ELSE /\ args' = [args EXCEPT !.port = p]
              /\ UNCHANGED << pc, exitStatus, printed >>
    /\ UNCHANGED << prog, hostVars, keysRead, ser, opens, closes, outLog >>
    /\ UNCHANGED << envVars, threadVars, flowVars >>

\* test_config.py: port = select_port(auto_select=True)
\* if port is None: print("No port selected. Exiting."); sys.exit(1)
ConfigSelectPort ==
    /\ prog = "test_config" /\ pc = "select"
    /\ \E p \in {"none", Port} :
         IF SelectedNone(p)
         THEN /\ printed' = printed \cup {"no_port_selected"}
              /\ pc' = "exited"
              /\ exitStatus' = 1
              /\ UNCHANGED << args, flow >>
         ELSE /\ args' = [args EXCEPT !.port = p]
              /\ flow' = "test_config"
              /\ pc' = "f_open"
              /\ UNCHANGED << exitStatus, printed >>
    /\ UNCHANGED << prog, hostVars, keysRead, ser, opens, closes, outLog >>
    /\ UNCHANGED << envVars, threadVars >>
    /\ UNCHANGED << confirm, prompts, step, surfaced, failedAt, success >>

\* the chain of if args.erase_config / write_defaults / test, else the
\* interactive terminal
MainDispatch ==
    /\ prog = "test_ui" /\ pc = "main" /\ ~args.list /\ args.port # "none"
    /\ flow' = (IF args.erase_config THEN "erase_config_storage"
                ELSE IF args.write_defaults THEN "write_factory_defaults"
                ELSE IF args.test THEN "run_automated_test"
                ELSE "")
    /\ pc' = (IF args.erase_config \/ args.write_defaults THEN "f_confirm"
              ELSE IF args.test THEN "f_open"
              ELSE "connect")
    /\ UNCHANGED << prog, sideVars, args, exitStatus, ser, opens, closes, outLog >>
    /\ UNCHANGED << envVars, threadVars >>
    /\ UNCHANGED << confirm, prompts, step, surfaced, failedAt, success >>

(***************************************************************************)
(* The environment: the device and the operator.                           *)
(***************************************************************************)
\* The device emits one byte.  A byte is recorded as the number of commands
\* that had been written to the transport when it was emitted.
DeviceEmit ==
    /\ ser = "open" /\ exitStatus = -1
    /\ emitted < MaxEmit
    /\ inBuf' = Append(inBuf, Len(outLog))
    /\ emitted' = emitted + 1
    /\ UNCHANGED << prog, sideVars, args, pc, exitStatus, ser, opens, closes, outLog >>
    /\ UNCHANGED << stdin, typedKeys, interrupted, threadVars, flowVars >>

(***************************************************************************)
(* The scripted flows of test_ui.py (run_automated_test,                   *)
(* write_factory_defaults, erase_config_storage) and the stand-alone       *)
(* scripts that follow the same pattern.                                   *)
(***************************************************************************)
\* str.upper() on the answers of Typed
Upper(t) == CASE t = "yes"   -> "YES"
              [] t = "erase" -> "ERASE"
              [] OTHER       -> t

\* A comparison that ignores case.
ConfirmedIgnoringCase(typed, token) == Upper(typed) = token

\* if confirm != "YES" / if confirm != "ERASE": string comparison
Confirmed(typed, token) == typed = token

\* An except clause that reports the error and falls through to the code
\* after the loop.
OnErrorFallsThrough(f) == "f_close"

\* Where control goes when the transport raises inside the flow: to the
\* except clause after the whole try block (return False), or out of the
\* script when nothing catches it, through the exit of the with statement
\* when there is one.
OnError(f) == IF Catches(f) THEN "f_return"
              ELSE IF WithBlock(f) THEN "f_unwind"
              ELSE "exited"

\* The transport raised at the current step.
FlowRaise ==
    /\ failedAt' = step
    /\ pc' = OnError(flow)
    /\ success' = (IF pc' = "f_return" THEN "False" ELSE success)
    /\ exitStatus' = (IF pc' = "exited" THEN 1 ELSE exitStatus)

\* A loop that an empty response ends.
FlowAdvanceStopsOnEmpty(empty) ==
    IF step < Len(Steps(flow)) /\ ~empty
    THEN /\ step' = step + 1
         /\ pc' = "f_write"
    ELSE /\ step' = step
         /\ pc' = "f_close"

\* End of the loop body, after a response (empty or not) was handled: the
\* next command, or the code after the loop.
FlowAdvance(empty) ==
    IF step < Len(Steps(flow))
    THEN /\ step' = step + 1
         /\ pc' = "f_write"
    ELSE /\ step' = step
         /\ pc' = "f_close"

\* confirm = input("Type '...' to continue: "); if it differs: return False
FlowConfirm ==
    /\ pc = "f_confirm"
    /\ \E t \in Typed :
         /\ confirm' = t
         /\ prompts' = prompts + 1
         /\ IF Confirmed(t, Gate(flow))
            THEN /\ pc' = "f_open"
                 /\ success' = success
            ELSE /\ pc' = "f_return"
                 /\ success' = "False"
    /\ UNCHANGED << prog, sideVars, args, exitStatus, ser, opens, closes, outLog >>
    /\ UNCHANGED << envVars, threadVars, flow, step, surfaced, failedAt >>

\* serial.Serial(...) is constructed with port, baudrate, timeout and the
\* flow-control flags; exclusive access is not among the arguments.
RequestsExclusive == FALSE

\* Whether the open can succeed with the endpoint held by another session:
\* it is refused only to a caller that asked for exclusive access.
OpenMaySucceed(held) == ~(held /\ RequestsExclusive)

\* ser = serial.Serial(port, ...)
FlowOpen ==
    /\ pc = "f_open"
    /\ opens' = opens + 1
    /\ \/ /\ OpenMaySucceed(heldByOther)
          /\ ser' = "open"
          /\ pc' = (IF Resets(flow) THEN "f_reset" ELSE "f_write")
          /\ step' = (IF Resets(flow) THEN 0 ELSE 1)
          /\ UNCHANGED << exitStatus, failedAt, success >>
       \/ /\ FlowRaise
          /\ UNCHANGED << ser, step >>
    /\ UNCHANGED << prog, sideVars, args, closes, outLog >>
    /\ UNCHANGED << envVars, threadVars, flow, confirm, prompts, surfaced >>

\* time.sleep(1); ser.reset_input_buffer()
FlowReset ==
    /\ pc = "f_reset"
    /\ \/ /\ inBuf' = << >>
          /\ pc' = "f_write"
          /\ step' = 1
          /\ UNCHANGED << exitStatus, failedAt, success >>
       \/ /\ FlowRaise
          /\ UNCHANGED << inBuf, step >>
    /\ UNCHANGED << prog, sideVars, args, ser, opens, closes, outLog >>
    /\ UNCHANGED << stdin, typedKeys, emitted, interrupted, threadVars >>
    /\ UNCHANGED << flow, confirm, prompts, surfaced >>

\* ser.write(f"{cmd}\r\n".encode('utf-8')); ser.flush()
FlowWrite ==
    /\ pc = "f_write"
    /\ \/ /\ outLog' = Append(outLog,
                 [by |-> "main",
                  data |-> Steps(flow)[step].cmd \o Steps(flow)[step].term])
          /\ pc' = (IF DrainsAlways(flow) THEN "f_read" ELSE "f_check")
          /\ UNCHANGED << exitStatus, failedAt, success >>
       \/ /\ FlowRaise
          /\ UNCHANGED outLog
    /\ UNCHANGED << prog, sideVars, args, ser, opens, closes >>
    /\ UNCHANGED << envVars, threadVars, flow, confirm, prompts, step, surfaced >>

\* time.sleep(window); if ser.in_waiting: ... else: print("No response ...")
FlowCheck ==
    /\ pc = "f_check"
    /\ \/ /\ inBuf # << >>
          /\ pc' = "f_read"
          /\ UNCHANGED << exitStatus, step, surfaced, failedAt, success >>
       \/ /\ inBuf = << >>
          /\ surfaced' = (IF Steps(flow)[step].reportsEmpty
                          THEN Append(surfaced,
                                 [step |-> step, kind |-> "none", data |-> << >>])
                          ELSE surfaced)
          /\ FlowAdvance(TRUE)
          /\ UNCHANGED << exitStatus, failedAt, success >>
       \/ /\ FlowRaise
          /\ UNCHANGED << step, surfaced >>
    /\ UNCHANGED << prog, sideVars, args, ser, opens, closes, outLog >>
    /\ UNCHANGED << envVars, threadVars, flow, confirm, prompts >>

\* A drain that takes one byte: ser.read() with its default size.
DrainedOneByte(buf) == IF buf = << >> THEN << >> ELSE << Head(buf) >>

\* ser.read(ser.in_waiting), ser.read_all(): everything that is buffered.
Drained(buf) == buf

\* response = ser.read(ser.in_waiting).decode(...); print(response)
\* In the flows that drain without testing in_waiting the preceding
\* time.sleep(window) ends here, and the response may be empty.
FlowRead ==
    /\ pc = "f_read"
    /\ \/ /\ surfaced' = (IF Discards(flow, step) THEN surfaced
                          ELSE Append(surfaced,
                                 [step |-> step, kind |-> "response",
                                  data |-> Drained(inBuf)]))
          /\ inBuf' = << >>
          /\ FlowAdvance(inBuf = << >>)
          /\ UNCHANGED << exitStatus, failedAt, success >>
       \/ /\ FlowRaise
          /\ UNCHANGED << inBuf, step, surfaced >>
    /\ UNCHANGED << prog, sideVars, args, ser, opens, closes, outLog >>
    /\ UNCHANGED << stdin, typedKeys, emitted, interrupted, threadVars >>
    /\ UNCHANGED << flow, confirm, prompts >>

\* An exception leaves the with statement: Serial.__exit__ closes the port
\* and the script ends on the traceback.
FlowUnwind ==
    /\ pc = "f_unwind"
    /\ IF ser = "open"
       THEN /\ ser' = "closed"
            /\ closes' = closes + 1
       ELSE UNCHANGED << ser, closes >>
    /\ pc' = "exited"
    /\ exitStatus' = 1
    /\ UNCHANGED << prog, sideVars, args, opens, outLog >>
    /\ UNCHANGED << envVars, threadVars, flowVars >>

\* A flow that reports success only when the device answered something.
ReturnNeedsResponse(sf) ==
    IF \E i \in DOMAIN sf : sf[i].kind = "response" THEN "True" ELSE "False"

\* The value returned once the try block has run to its end, given what
\* was surfaced for the steps: return True, whatever the responses were.
ReturnAfterSteps(sf) == "True"

\* ser.close(); print("... complete"); falls through to return True
FlowClose ==
    /\ pc = "f_close"
    /\ ser' = "closed"
    /\ closes' = closes + 1
    /\ success' = ReturnAfterSteps(surfaced)
    /\ pc' = "f_return"
    /\ UNCHANGED << prog, sideVars, args, exitStatus, opens, outLog >>
    /\ UNCHANGED << envVars, threadVars >>
    /\ UNCHANGED << flow, confirm, prompts, step, surfaced, failedAt >>

\* The exit status after the flow: main() calls sys.exit(0 if success else 1);
\* test_config.py calls sys.exit(1) in its except clause; the other
\* stand-alone scripts run off their end.
FlowExitCode(p, ok) ==
    IF p \in {"test_ui", "test_config"} /\ ok # "True" THEN 1 ELSE 0

FlowReturn ==
    /\ pc = "f_return"
    /\ exitStatus' = FlowExitCode(prog, success)
    /\ pc' = "exited"
    /\ UNCHANGED << prog, sideVars, args, ser, opens, closes, outLog >>
    /\ UNCHANGED << envVars, threadVars, flowVars >>

FlowNext ==
    \/ FlowConfirm \/ FlowOpen \/ FlowReset \/ FlowWrite
    \/ FlowCheck \/ FlowRead \/ FlowClose \/ FlowUnwind \/ FlowReturn

(***************************************************************************)
(* The interactive terminal, GuitarAccTerminal: the main thread in run(),  *)
(* read_thread and input_thread.                                           *)
(***************************************************************************)
\* The operator types a key.  With the terminal in raw mode every key,
\* Ctrl+C included, arrives on stdin as one character.
TypeKey ==
    /\ termMode = "raw" /\ exitStatus = -1
    /\ typedKeys < MaxKeys
    /\ \E k \in Keys : stdin' = Append(stdin, k)
    /\ typedKeys' = typedKeys + 1
    /\ UNCHANGED << prog, sideVars, args, pc, exitStatus, ser, opens, closes, outLog >>
    /\ UNCHANGED << inBuf, emitted, interrupted, threadVars, flowVars >>

\* A run() that goes on whatever connect() returned.
AfterConnectIgnored(ok) == "set_running"

\* run(): if not self.connect(): return
AfterConnect(ok) == IF ok THEN "set_running" ELSE "run_returned"

\* connect() returns True with the port open, or prints the
\* SerialException ("Error connecting to ...") and returns False.
TermConnect ==
    /\ pc = "connect"
    /\ opens' = opens + 1
    /\ \/ /\ OpenMaySucceed(heldByOther)
          /\ ser' = "open"
          /\ pc' = AfterConnect(TRUE)
          /\ printed' = printed
       \/ /\ ser' = ser
          /\ pc' = AfterConnect(FALSE)
          /\ printed' = printed \cup {"connect_error"}
    /\ UNCHANGED << prog, hostVars, keysRead, args, exitStatus, closes,
                    outLog >>
    /\ UNCHANGED << envVars, threadVars, flowVars >>

\* self.running = True
TermSetRunning ==
    /\ pc = "set_running"
    /\ running' = TRUE
    /\ pc' = "start_reader"
    /\ UNCHANGED << prog, sideVars, args, exitStatus, ser, opens, closes, outLog >>
    /\ UNCHANGED << readerPc, inputPc, char, termMode, oldSettings, ctrlC,
                    workerErr, staleIO >>
    /\ UNCHANGED << envVars, flowVars >>

\* reader = threading.Thread(target=self.read_thread, daemon=True); reader.start()
TermStartReader ==
    /\ pc = "start_reader"
    /\ readerPc' = "r_loop"
    /\ pc' = "start_writer"
    /\ UNCHANGED << prog, sideVars, args, exitStatus, ser, opens, closes, outLog >>
    /\ UNCHANGED << running, inputPc, char, termMode, oldSettings, ctrlC,
                    workerErr, staleIO >>
    /\ UNCHANGED << envVars, flowVars >>

\* writer = threading.Thread(target=self.input_thread, daemon=True); writer.start()
TermStartWriter ==
    /\ pc = "start_writer"
    /\ inputPc' = "i_start"
    /\ pc' = "wait"
    /\ UNCHANGED << prog, sideVars, args, exitStatus, ser, opens, closes, outLog >>
    /\ UNCHANGED << running, readerPc, char, termMode, oldSettings, ctrlC,
                    workerErr, staleIO >>
    /\ UNCHANGED << envVars, flowVars >>

\* try: while self.running: time.sleep(0.1)  -- the loop ends once the flag
\* is seen cleared and control enters the finally clause
TermWaitExit ==
    /\ pc = "wait"
    /\ ~running
    /\ pc' = "finally"
    /\ UNCHANGED << prog, sideVars, args, exitStatus, ser, opens, closes, outLog >>
    /\ UNCHANGED << envVars, threadVars, flowVars >>

\* except KeyboardInterrupt: print("\nExiting...")  -- the operator's
\* interrupt signal reaches the main thread inside the try block
KeyboardInterrupt ==
    /\ pc = "wait"
    /\ interrupted' = TRUE
    /\ pc' = "finally"
    /\ UNCHANGED << prog, sideVars, args, exitStatus, ser, opens, closes, outLog >>
    /\ UNCHANGED << stdin, typedKeys, inBuf, emitted, threadVars, flowVars >>

\* finally: self.running = False
TermFinally ==
    /\ pc = "finally"
    /\ running' = FALSE
    /\ pc' = "grace"
    /\ UNCHANGED << prog, sideVars, args, exitStatus, ser, opens, closes, outLog >>
    /\ UNCHANGED << readerPc, inputPc, char, termMode, oldSettings, ctrlC,
                    workerErr, staleIO >>
    /\ UNCHANGED << envVars, flowVars >>

\* A worker that is neither finished nor blocked: read_thread never blocks
\* for longer than its 0.01 s sleep; input_thread blocks only in
\* sys.stdin.read(1) while no keystroke is pending.
ReaderBusy == readerPc \notin {"unborn", "r_done", "killed"}
InputBusy  == /\ inputPc \notin {"unborn", "i_done", "killed"}
              /\ ~(inputPc = "i_read" /\ stdin = << >>)

\* time.sleep(0.2)  # Give threads time to exit
\* The grace period is taken to outlast every step a worker can take
\* without blocking: it ends once each worker has finished or is blocked.
\* Nothing joins the workers, so a blocked worker is left behind.
TermGrace ==
    /\ pc = "grace"
    /\ ~ReaderBusy /\ ~InputBusy
    /\ pc' = "disconnect"
    /\ UNCHANGED << prog, sideVars, args, exitStatus, ser, opens, closes, outLog >>
    /\ UNCHANGED << envVars, threadVars, flowVars >>

\* A test that never lets disconnect() close the port.
ShouldCloseNever(s) == FALSE

\* disconnect(): if self.ser and self.ser.is_open
ShouldClose(s) == s = "open"

\* self.disconnect(): if self.ser and self.ser.is_open: self.ser.close()
TermDisconnect ==
    /\ pc = "disconnect"
    /\ IF ShouldClose(ser)
       THEN /\ ser' = "closed"
            /\ closes' = closes + 1
       ELSE UNCHANGED << ser, closes >>
    /\ pc' = "run_returned"
    /\ UNCHANGED << prog, sideVars, args, exitStatus, opens, outLog >>
    /\ UNCHANGED << envVars, threadVars, flowVars >>

\* A daemon thread that has not finished when the interpreter exits is
\* abandoned where it stands.
Abandon(t) == IF t \in {"unborn", "r_done", "i_done"} THEN t ELSE "killed"

\* terminal.run() has returned; main() returns and the interpreter exits
\* with status 0, taking the daemon threads with it.
MainReturn ==
    /\ pc = "run_returned"
    /\ exitStatus' = 0
    /\ pc' = "exited"
    /\ readerPc' = Abandon(readerPc)
    /\ inputPc' = Abandon(inputPc)
    /\ UNCHANGED << prog, sideVars, args, ser, opens, closes, outLog >>
    /\ UNCHANGED << running, char, termMode, oldSettings, ctrlC, workerErr,
                    staleIO >>
    /\ UNCHANGED << envVars, flowVars >>

(***************************************************************************)
(* read_thread                                                             *)
(***************************************************************************)
\* while self.running:
ReaderLoop ==
    /\ readerPc = "r_loop"
    /\ readerPc' = (IF running THEN "r_poll" ELSE "r_done")
    /\ UNCHANGED << prog, sideVars, args, pc, exitStatus, ser, opens, closes, outLog >>
    /\ UNCHANGED << running, inputPc, char, termMode, oldSettings, ctrlC,
                    workerErr, staleIO >>
    /\ UNCHANGED << envVars, flowVars >>

\* if self.ser and self.ser.is_open and self.ser.in_waiting: ...
\* else: time.sleep(0.01)
\* except Exception: (print) break  -- the flag is left as it is
ReaderPoll ==
    /\ readerPc = "r_poll"
    /\ \/ /\ ser = "open" /\ inBuf # << >>
          /\ readerPc' = "r_read"
          /\ UNCHANGED workerErr
       \/ /\ ser # "open" \/ inBuf = << >>
          /\ readerPc' = "r_loop"
          /\ UNCHANGED workerErr
       \/ /\ ser = "open"
          /\ readerPc' = "r_done"
          /\ workerErr' = workerErr \cup {"reader"}
    /\ UNCHANGED << prog, sideVars, args, pc, exitStatus, ser, opens, closes, outLog >>
    /\ UNCHANGED << running, inputPc, char, termMode, oldSettings, ctrlC,
                    staleIO >>
    /\ UNCHANGED << envVars, flowVars >>

\* A reader that sends what it received back to the device.
ReaderEchoes(data) == << [by |-> "reader", data |-> "echo"] >>

\* What read_thread writes to the transport for the data it received:
\* nothing, the data goes to sys.stdout only.
ReaderWrites(data) == << >>

\* data = self.ser.read(self.ser.in_waiting); sys.stdout.write(...)
\* On a port closed in the meantime the call raises.
ReaderRead ==
    /\ readerPc = "r_read"
    /\ IF ser = "open"
       THEN \/ /\ inBuf' = << >>
               /\ outLog' = outLog \o ReaderWrites(inBuf)
               /\ readerPc' = "r_loop"
               /\ UNCHANGED << workerErr, staleIO >>
            \/ /\ readerPc' = "r_done"
               /\ workerErr' = workerErr \cup {"reader"}
               /\ UNCHANGED << inBuf, outLog, staleIO >>
       ELSE /\ readerPc' = "r_done"
            /\ workerErr' = workerErr \cup {"reader"}
            /\ staleIO' = staleIO \cup {"reader"}
            /\ UNCHANGED << inBuf, outLog >>
    /\ UNCHANGED << prog, sideVars, args, pc, exitStatus, ser, opens, closes >>
    /\ UNCHANGED << running, inputPc, char, termMode, oldSettings, ctrlC >>
    /\ UNCHANGED << stdin, typedKeys, emitted, interrupted, flowVars >>

(***************************************************************************)
(* input_thread                                                            *)
(***************************************************************************)
\* old_settings = termios.tcgetattr(sys.stdin); tty.setraw(sys.stdin.fileno())
\* When stdin is no terminal tcgetattr raises: old_settings stays None and
\* the exception leaves through the finally clause.
InputStart ==
    /\ inputPc = "i_start"
    /\ \/ /\ oldSettings' = termMode
          /\ termMode' = "raw"
          /\ inputPc' = "i_loop"
       \/ /\ inputPc' = "i_finally"
          /\ UNCHANGED << oldSettings, termMode >>
    /\ UNCHANGED << prog, sideVars, args, pc, exitStatus, ser, opens, closes, outLog >>
    /\ UNCHANGED << running, readerPc, char, ctrlC, workerErr, staleIO >>
    /\ UNCHANGED << envVars, flowVars >>

\* while self.running:
InputLoop ==
    /\ inputPc = "i_loop"
    /\ inputPc' = (IF running THEN "i_read" ELSE "i_finally")
    /\ UNCHANGED << prog, sideVars, args, pc, exitStatus, ser, opens, closes, outLog >>
    /\ UNCHANGED << running, readerPc, char, termMode, oldSettings, ctrlC,
                    workerErr, staleIO >>
    /\ UNCHANGED << envVars, flowVars >>

\* A comparison that no character satisfies.
IsInterruptNever(c) == FALSE

\* if ord(char) == 3: self.running = False; break
IsInterrupt(c) == Ord(c) = InterruptByte

\* An interrupt branch that only breaks out of the loop.
RunningAfterKeyNotCleared(c, r) == r

\* the value of self.running after character c has been examined
RunningAfterKey(c, r) == IF IsInterrupt(c) THEN FALSE ELSE r

\* char = sys.stdin.read(1)  -- blocks until a keystroke is pending
\* if char and self.ser and self.ser.is_open:
\*     if ord(char) == 3: self.running = False; break
InputRead ==
    /\ inputPc = "i_read"
    /\ stdin # << >>
    /\ char' = Head(stdin)
    /\ stdin' = Tail(stdin)
    /\ IF ser = "open"
       THEN /\ running' = RunningAfterKey(char', running)
            /\ ctrlC' = (ctrlC \/ IsInterrupt(char'))
            /\ inputPc' = (IF IsInterrupt(char') THEN "i_finally" ELSE "i_write")
            /\ keysRead' = Append(keysRead, char')
       ELSE /\ inputPc' = "i_loop"
            /\ UNCHANGED << running, ctrlC, keysRead >>
    /\ UNCHANGED << prog, hostVars, printed, args, pc, exitStatus, ser, opens, closes, outLog >>
    /\ UNCHANGED << readerPc, termMode, oldSettings, workerErr, staleIO >>
    /\ UNCHANGED << typedKeys, inBuf, emitted, interrupted, flowVars >>

\* self.ser.write(char.encode('utf-8')); self.ser.flush()
\* except Exception: (print) break  -- the flag is left as it is
\* On a port closed since the is_open test the call raises.
InputWrite ==
    /\ inputPc = "i_write"
    /\ IF ser = "open"
       THEN \/ /\ outLog' = Append(outLog, [by |-> "input", data |-> char])
               /\ inputPc' = "i_loop"
               /\ UNCHANGED << workerErr, staleIO >>
            \/ /\ inputPc' = "i_finally"
               /\ workerErr' = workerErr \cup {"input"}
               /\ UNCHANGED << outLog, staleIO >>
       ELSE /\ inputPc' = "i_finally"
            /\ workerErr' = workerErr \cup {"input"}
            /\ staleIO' = staleIO \cup {"input"}
            /\ UNCHANGED outLog
    /\ UNCHANGED << prog, sideVars, args, pc, exitStatus, ser, opens, closes >>
    /\ UNCHANGED << running, readerPc, char, termMode, oldSettings, ctrlC >>
    /\ UNCHANGED << envVars, flowVars >>

\* finally: if old_settings: termios.tcsetattr(sys.stdin, TCSADRAIN, old_settings)
InputFinally ==
    /\ inputPc = "i_finally"
    /\ termMode' = (IF oldSettings # "none" THEN oldSettings ELSE termMode)
    /\ inputPc' = "i_done"
    /\ UNCHANGED << prog, sideVars, args, pc, exitStatus, ser, opens, closes, outLog >>
    /\ UNCHANGED << running, readerPc, char, oldSettings, ctrlC, workerErr,
                    staleIO >>
    /\ UNCHANGED << envVars, flowVars >>

MainThread ==
    \/ TermConnect \/ TermSetRunning \/ TermStartReader \/ TermStartWriter
    \/ TermWaitExit \/ TermFinally \/ TermGrace \/ TermDisconnect \/ MainReturn

ReaderThread == ReaderLoop \/ ReaderPoll \/ ReaderRead

InputThread == InputStart \/ InputLoop \/ InputRead \/ InputWrite \/ InputFinally

Next ==
    \/ MainList \/ MainSelectPort \/ ConfigSelectPort \/ MainDispatch
    \/ FlowNext
    \/ MainThread \/ ReaderThread \/ InputThread
    \/ DeviceEmit \/ TypeKey \/ KeyboardInterrupt

Spec == Init /\ [][Next]_vars

\* Every thread that can take a step eventually takes one; the device and
\* the operator are under no obligation.
FairSpec ==
    /\ Spec
    /\ WF_vars(MainThread)
    /\ WF_vars(ReaderThread)
    /\ WF_vars(InputThread)

(***************************************************************************)
(* select_port.py and list_ports of test_ui.py: the functions that find    *)
(* and pick the endpoint, applied to the devices present on the host, the  *)
(* order in which the directory is enumerated and the operator's answers.  *)
(***************************************************************************)
\* listing calls made in one run
MaxCalls == 2
\* answers the operator gives to the selection prompt in one run
MaxPrompts == 2

\* The device nodes that may be present under /dev.
DevicePaths == {"/dev/tty.Bluetooth-Incoming-Port", "/dev/tty.usbmodem1",
                "/dev/tty.usbmodem2", "/dev/tty.usbserial3"}

\* The place of a path in the order of Python's string comparison, by
\* which sorted() arranges the list.
Rank(p) == CASE p = "/dev/tty.Bluetooth-Incoming-Port" -> 0
             [] p = "/dev/tty.usbmodem1"               -> 1
             [] p = "/dev/tty.usbmodem2"               -> 2
             [] p = "/dev/tty.usbserial3"              -> 3

\* Whether a path matches the glob pattern.
Matches(p, pattern) ==
    CASE pattern = "/dev/tty.usbmodem*" ->
             p \in {"/dev/tty.usbmodem1", "/dev/tty.usbmodem2"}
      [] pattern = "/dev/tty.usb*" ->
             p \in {"/dev/tty.usbmodem1", "/dev/tty.usbmodem2",
                    "/dev/tty.usbserial3"}

\* The orders in which the directory holding the paths of S may be
\* enumerated: every arrangement of S.
Enumerations(S) ==
    { f \in [1 .. Cardinality(S) -> S] : \A x \in S : \E i \in DOMAIN f : f[i] = x }

\* glob.glob(pattern): the matching paths, in the order of the enumeration.
Glob(pattern, order) == SelectSeq(order, LAMBDA p : Matches(p, pattern))

\* sorted(ports)
Sorted(seq) == SortSeq(seq, LAMBDA a, b : Rank(a) < Rank(b))

\* select_port.py find_usb_modem_ports(): sorted(glob.glob('/dev/tty.usbmodem*'))
find_usb_modem_ports(order) == Sorted(Glob("/dev/tty.usbmodem*", order))

\* test_ui.py list_ports(): the usbmodem paths, or when there are none the
\* usb paths, as glob.glob returned them.
list_ports(order1, order2) ==
    IF Glob("/dev/tty.usbmodem*", order1) # << >>
    THEN Glob("/dev/tty.usbmodem*", order1)
    ELSE Glob("/dev/tty.usb*", order2)

\* What the operator may answer to the selection prompt.
Selections == {"q", "Q", " q ", "1", "2", " 2", "3", "0", "-1", "x", "", "1.5"}

\* str.strip() on the answers of Selections
Strip(t) == CASE t = " q " -> "q"
              [] t = " 2"  -> "2"
              [] OTHER     -> t

\* str.lower() on the stripped answers
Lower(t) == IF t = "Q" THEN "q" ELSE t

\* Whether int(t) succeeds on a stripped answer; it raises ValueError on
\* the others.
IsInt(t) == t \in {"1", "2", "3", "0", "-1"}

\* int(t)
IntOf(t) == CASE t = "1"  -> 1
              [] t = "2"  -> 2
              [] t = "3"  -> 3
              [] t = "0"  -> 0
              [] t = "-1" -> -1

\* Python's list indexing, seq[i]: from the end for a negative index.
PyIndex(seq, i) == IF i >= 0 THEN seq[i + 1] ELSE seq[Len(seq) + i + 1]

\* A range test that lets 0 through.
InRangeFromZero(idx, n) == 0 <= idx /\ idx <= n

\* if 1 <= idx <= len(ports)
InRange(idx, n) == 1 <= idx /\ idx <= n

\* The variables the functions of select_port.py leave alone.
otherVars == << prog, args, exitStatus, ser, opens, closes, outLog,
                heldByOther, keysRead, devs, autoSelect, stdin, typedKeys,
                inBuf, emitted, threadVars, flow, confirm, step, surfaced,
                failedAt, success >>

SelectInit ==
    /\ prog \in {"select_port", "listing"}
    /\ args = NoArgs
    /\ pc = (IF prog = "select_port" THEN "sel_start" ELSE "listing")
    /\ flow = ""
    /\ heldByOther = FALSE
    /\ devs \in SUBSET DevicePaths
    /\ autoSelect \in (IF prog = "select_port" THEN BOOLEAN ELSE {FALSE})
    /\ Fresh

\* A call of find_usb_modem_ports() with the devices unchanged.
CallFind ==
    /\ pc = "listing" /\ Len(calls) < MaxCalls
    /\ \E order \in Enumerations(devs) :
         calls' = Append(calls, [fn |-> "find_usb_modem_ports",
                                 result |-> find_usb_modem_ports(order)])
    /\ UNCHANGED << otherVars, pc, prompts, printed, interrupted, ports,
                    selected, selection >>

\* A call of list_ports() with the devices unchanged; each glob.glob
\* enumerates the directory anew.
CallList ==
    /\ pc = "listing" /\ Len(calls) < MaxCalls
    /\ \E order1, order2 \in Enumerations(devs) :
         calls' = Append(calls, [fn |-> "list_ports",
                                 result |-> list_ports(order1, order2)])
    /\ UNCHANGED << otherVars, pc, prompts, printed, interrupted, ports,
                    selected, selection >>

\* select_port: ports = find_usb_modem_ports()
\* if not ports: print("ERROR: ..."); return None
\* if len(ports) == 1 and auto_select: return ports[0]
\* otherwise the menu is printed and the prompt loop entered
SelectStart ==
    /\ pc = "sel_start"
    /\ \E order \in Enumerations(devs) :
         /\ ports' = find_usb_modem_ports(order)
         /\ IF ports' = << >>
            THEN /\ printed' = printed \cup {"no_ports_found"}
                 /\ selected' = "none"
                 /\ pc' = "sel_returned"
            ELSE IF Len(ports') = 1 /\ autoSelect
            THEN /\ selected' = PyIndex(ports', 0)
                 /\ pc' = "sel_returned"
                 /\ printed' = printed
            ELSE /\ pc' = "sel_menu"
                 /\ UNCHANGED << selected, printed >>
    /\ UNCHANGED << otherVars, prompts, interrupted, selection, calls >>

\* selection = input("Select port ...").strip()
\* if selection.lower() == 'q': return None
\* idx = int(selection); if 1 <= idx <= len(ports): return ports[idx - 1]
\* else / except ValueError: print("Invalid ..."), and the loop goes on
SelectInput ==
    /\ pc = "sel_menu" /\ prompts < MaxPrompts
    /\ \E t \in Selections :
         /\ selection' = Strip(t)
         /\ prompts' = prompts + 1
         /\ IF Lower(selection') = "q"
            THEN /\ selected' = "none"
                 /\ pc' = "sel_returned"
                 /\ printed' = printed
            ELSE IF ~IsInt(selection')
            THEN /\ printed' = printed \cup {"invalid_input"}
                 /\ UNCHANGED << selected, pc >>
            ELSE IF InRange(IntOf(selection'), Len(ports))
            THEN /\ selected' = PyIndex(ports, IntOf(selection') - 1)
                 /\ pc' = "sel_returned"
                 /\ printed' = printed
            ELSE /\ printed' = printed \cup {"invalid_selection"}
                 /\ UNCHANGED << selected, pc >>
    /\ UNCHANGED << otherVars, interrupted, ports, calls >>

\* except KeyboardInterrupt: print("\nCancelled."); return None  -- the
\* operator interrupts the prompt
SelectInterrupt ==
    /\ pc = "sel_menu" /\ prompts < MaxPrompts
    /\ prompts' = prompts + 1
    /\ interrupted' = TRUE
    /\ printed' = printed \cup {"cancelled"}
    /\ selected' = "none"
    /\ pc' = "sel_returned"
    /\ UNCHANGED << otherVars, ports, selection, calls >>

SelectNext ==
    CallFind \/ CallList \/ SelectStart \/ SelectInput \/ SelectInterrupt

SelectSpec == SelectInit /\ [][SelectNext]_vars

(***************************************************************************)
(* Properties.                                                             *)
(***************************************************************************)
\* The session entered raw capture mode: tcgetattr saved the settings and
\* tty.setraw was applied.
RawEntered == oldSettings # "none"

\* run() has closed the transport and returned.
RunReturned == pc \in {"run_returned", "exited"} /\ flow = "" /\ opens > 0

\* C1: for every way a session that entered raw capture mode can end, by
\* the time run() has closed the transport and returned the stdin terminal
\* settings are back at the values saved before tty.setraw.
C1_TerminalRestoredOnReturn ==
    (RunReturned /\ RawEntered) => termMode = oldSettings

\* Both workers have run to their end.
WorkersExited == readerPc = "r_done" /\ inputPc = "i_done"

\* The terminal session is closed: the transport is closed and the process
\* has left run() and exited.
SessionClosed == flow = "" /\ pc = "exited" /\ ser = "closed"

\* The interrupt character was read in a Running session.
InterruptCharRead == ctrlC /\ ~interrupted

\* C2: once the input worker has read the interrupt character in a Running
\* session the running flag is false, and from then on the input worker
\* exits with the terminal mode restored, the reader worker exits, and the
\* main thread closes the transport: the session reaches Closed.
C2_InterruptCharClosesSession ==
    /\ [](InterruptCharRead => ~running)
    /\ InterruptCharRead ~>
         (SessionClosed /\ WorkersExited /\ ~running /\ termMode = oldSettings)

\* A session ended by the interrupt character, closed and restored.
C2_Witness ==
    /\ InterruptCharRead /\ SessionClosed /\ WorkersExited
    /\ RawEntered /\ termMode = "cooked"

\* C3: when a KeyboardInterrupt arrives in the main thread during Running,
\* both workers have terminated by the time the transport is closed, with
\* no further keystroke needed.
C3_WorkersExitOnKeyboardInterrupt ==
    (interrupted /\ ser = "closed") => WorkersExited

\* C4: a worker that hits a transport error clears the running flag.
C4_WorkerErrorClearsRunning ==
    [][workerErr' # workerErr => ~running']_vars

\* C5: when run() closes the transport both workers have already exited,
\* and no worker reads or writes the transport after it was closed.
C5_NoWorkerAtClose ==
    /\ (flow = "" /\ ser = "closed") =>
           (readerPc \in {"r_done"} /\ inputPc \in {"i_done"})
    /\ staleIO = {}

\* C6: the response collected for a command holds only bytes the device
\* emitted after that command was written (a byte carries the number of
\* commands written when it was emitted).
C6_ResponseHasNoStaleBytes ==
    flow \in {"run_automated_test", "test_config_commands"} =>
        \A i \in DOMAIN surfaced :
            \A j \in DOMAIN surfaced[i].data :
                surfaced[i].data[j] >= surfaced[i].step

\* C7: a destructive flow prompts exactly once before anything else; an
\* answer that is not exactly the token returns not-completed with the
\* transport never opened and nothing written; the exact token proceeds
\* to open the transport and run the steps.
C7_ConfirmationGate ==
    Gate(flow) # "" =>
        /\ prompts = (IF confirm = "-" THEN 0 ELSE 1)
        /\ confirm = "-" => (pc = "f_confirm" /\ opens = 0 /\ outLog = << >>)
        /\ (confirm # "-" /\ confirm # Gate(flow)) =>
               /\ opens = 0 /\ ser = "none" /\ outLog = << >>
               /\ success = "False"
               /\ pc \in {"f_return", "exited"}
        /\ confirm = Gate(flow) =>
               /\ pc = "f_open" \/ opens = 1
               /\ (failedAt = -1 /\ pc = "exited") => Len(outLog) = Len(Steps(flow))

\* The erase flow refused on the wrong-case answer.
C7_Witness ==
    /\ flow = "erase_config_storage" /\ confirm = "erase"
    /\ pc = "exited" /\ success = "False" /\ opens = 0

\* The command of step i as it is written to the transport.
Wire(f, i) == [by |-> "main", data |-> Steps(f)[i].cmd \o Steps(f)[i].term]

\* What was written so far is the first commands of the flow, in list order.
WrittenInOrder ==
    /\ Len(outLog) <= Len(Steps(flow))
    /\ \A i \in DOMAIN outLog : outLog[i] = Wire(flow, i)

\* C8: in run_automated_test, when the transport raises at step k, no
\* command of a later step is written, exactly the outcomes of the steps
\* before k have been surfaced, and the flow returns False.
C8_ErrorAbortsFlow ==
    (flow = "run_automated_test" /\ failedAt >= 0) =>
        /\ success = "False"
        /\ pc \in {"f_return", "exited"}
        /\ pc = "exited" => exitStatus = 1
        /\ WrittenInOrder
        /\ Len(outLog) \in {failedAt - 1, failedAt} \cap Nat
        /\ Len(surfaced) = (IF failedAt = 0 THEN 0 ELSE failedAt - 1)
        /\ \A i \in DOMAIN surfaced : surfaced[i].step = i

\* The flow failed at its second step with one response surfaced.
C8_Witness ==
    /\ flow = "run_automated_test" /\ failedAt = 2
    /\ Len(surfaced) = 1 /\ success = "False" /\ pc = "exited"

\* The flow ended without a transport error and was not refused.
EndedClean ==
    /\ pc \in {"f_return", "exited"}
    /\ failedAt = -1
    /\ Gate(flow) # "" => confirm = Gate(flow)

OpenFailed == opens > 0 /\ ser = "none"

\* C10: the exit status of test_ui.py's main() is non-zero whenever a
\* scripted flow did not complete or the endpoint could not be opened, in
\* every mode, and 0 on normal or successful completion.
C10_ExitStatus ==
    (prog = "test_ui" /\ pc = "exited") =>
        /\ (success = "False" \/ OpenFailed) => exitStatus # 0
        /\ (success # "False" /\ ~OpenFailed /\ (args.list \/ args.port # "none"))
               => exitStatus = 0

\* C11: when opening the transport fails in connect(), the terminal session
\* goes straight to Closed: the failure is reported, the running flag is
\* never set, neither worker is started and the terminal never enters raw
\* mode; run() returns without anything to close.
C11_FailedConnectClosesSession ==
    /\ (flow = "" /\ pc = "connect") => ~running
    /\ (flow = "" /\ OpenFailed) =>
           /\ "connect_error" \in printed
           /\ pc \in {"run_returned", "exited"}
           /\ ~running
           /\ readerPc = "unborn" /\ inputPc = "unborn"
           /\ ~RawEntered /\ termMode = "cooked"
           /\ typedKeys = 0 /\ outLog = << >>
           /\ closes = 0

\* The interactive terminal ended after a failed connect().
C11_Witness ==
    /\ flow = "" /\ OpenFailed /\ pc = "exited"
    /\ "connect_error" \in printed

\* A step of read_thread, and a step of input_thread.
ReaderStep == readerPc' # readerPc /\ readerPc # "unborn" /\ readerPc' # "killed"
InputStep  == inputPc' # inputPc /\ inputPc # "unborn" /\ inputPc' # "killed"

\* C12: in a terminal session every write to the transport is made by
\* input_thread, at its write statement, and by no other thread;
\* read_thread only reads: its steps leave the transport's output, the
\* keyboard and the terminal alone, and the steps of input_thread leave
\* the received bytes and read_thread alone.
C12_OnlyInputWorkerWrites ==
    /\ [](flow = "" => \A i \in DOMAIN outLog : outLog[i].by = "input")
    /\ [][(flow = "" /\ outLog' # outLog) =>
              (inputPc = "i_write" /\ inputPc' = "i_loop")]_vars
    /\ [][(flow = "" /\ ReaderStep) =>
              UNCHANGED << outLog, stdin, typedKeys, char, keysRead, termMode,
                           oldSettings, inputPc >>]_vars
    /\ [][(flow = "" /\ InputStep) => UNCHANGED << inBuf, readerPc >>]_vars

\* Both workers have done their part: read_thread consumed what the device
\* sent while input_thread had forwarded a keystroke.
C12_Witness ==
    /\ flow = "" /\ ser = "open"
    /\ outLog # << >>
    /\ emitted > 0 /\ inBuf = << >> /\ readerPc = "r_loop"

\* The characters written to the transport, in the order of the writes.
Forwarded == [i \in DOMAIN outLog |-> outLog[i].data]

\* The keystrokes other than the interrupt character that input_thread
\* read with the transport open, in the order they were typed.
ToForward == SelectSeq(keysRead, LAMBDA c : Ord(c) # InterruptByte)

IsPrefix(a, b) == Len(a) <= Len(b) /\ \A i \in DOMAIN a : a[i] = b[i]

\* C13: in raw mode the interrupt character (byte 3) is never written to
\* the transport: reading it clears the running flag and ends input_thread,
\* and nothing is read after it.  Every other keystroke read is written
\* once, in the order typed and before the next one is read: what was
\* written is always the keystrokes read so far, short of at most the one
\* being written or the one whose write raised.
C13_KeystrokesForwarded ==
    flow = "" =>
        /\ \A i \in DOMAIN outLog : Ord(outLog[i].data) # InterruptByte
        /\ \A i \in DOMAIN keysRead :
               Ord(keysRead[i]) = InterruptByte => i = Len(keysRead) /\ ctrlC
        /\ ctrlC => (~running /\ inputPc \in {"i_finally", "i_done", "killed"})
        /\ IsPrefix(Forwarded, ToForward)
        /\ Len(ToForward) - Len(Forwarded) <= 1
        /\ inputPc \in {"i_loop", "i_read"} => Forwarded = ToForward
        /\ (inputPc \in {"i_finally", "i_done"} /\ "input" \notin workerErr)
               => Forwarded = ToForward

\* A printable key was forwarded, then the interrupt character was read
\* and input_thread ended.
C13_Witness ==
    /\ flow = "" /\ inputPc = "i_done" /\ ctrlC
    /\ Len(keysRead) = 2 /\ Len(outLog) = 1
    /\ outLog[1].data = keysRead[1]

\* The scripts whose command/response pattern is write, sleep the window,
\* drain: send_command of test_midi_rt_tx.py and check_flash.py.
WindowFlows == {"test_midi_rt_tx", "check_flash"}

\* The bytes the device emitted after command k was written and before
\* the next one: its reply to command k.  Whether one of them is in seq.
HasReplyByte(seq, k) == \E j \in DOMAIN seq : seq[j] = k

\* C14 as stated: the write precedes the drain, and a reply that starts to
\* arrive within the window of its command is returned in full by that
\* command's drain: no byte of it is left in the buffer or turns up in a
\* later response.
C14_ReplyInWindowReturnedInFull ==
    flow \in WindowFlows =>
        \A i \in DOMAIN surfaced :
            LET k == surfaced[i].step
            IN  /\ k <= Len(outLog)
                /\ HasReplyByte(surfaced[i].data, k) =>
                       /\ ~HasReplyByte(inBuf, k)
                       /\ \A n \in DOMAIN surfaced :
                              n > i => ~HasReplyByte(surfaced[n].data, k)

\* The drain of a step that completes: the sleep is over and
\* ser.read(ser.in_waiting) / ser.read_all() returns.
DrainStep == pc = "f_read" /\ pc' # "f_read" /\ failedAt' = failedAt

\* C14 (amended): the pattern writes, sleeps the whole window and drains
\* once.  The response is exactly what is buffered when the window closes,
\* in arrival order, and the buffer is left empty: the bytes that arrived
\* since the previous drain, so only bytes emitted after the previous
\* command was written.  A reply still arriving when the window closes is
\* cut there.  A response is produced by a drain only, and the command of
\* its step was written before.
C14_DrainReturnsWhatHasArrived ==
    /\ [](flow \in WindowFlows =>
             \A i \in DOMAIN surfaced :
                 /\ surfaced[i].step <= Len(outLog)
                 /\ \A j \in DOMAIN surfaced[i].data :
                        /\ surfaced[i].data[j] \in
                               {surfaced[i].step - 1, surfaced[i].step}
                        /\ \A m \in 1 .. (j - 1) :
                               surfaced[i].data[m] <= surfaced[i].data[j])
    /\ [][(flow \in WindowFlows /\ DrainStep) =>
              /\ Len(outLog) = step
              /\ inBuf' = << >>
              /\ \/ Discards(flow, step) /\ surfaced' = surfaced
                 \/ surfaced' = Append(surfaced,
                        [step |-> step, kind |-> "response", data |-> inBuf])
          ]_vars
    /\ [][(flow \in WindowFlows /\ surfaced' # surfaced) => DrainStep]_vars

\* A reply that was cut: its first byte is in the response of its command,
\* its second byte arrived after the drain.
C14_Witness ==
    /\ flow \in WindowFlows
    /\ \E i \in DOMAIN surfaced :
           /\ HasReplyByte(surfaced[i].data, surfaced[i].step)
           /\ HasReplyByte(inBuf, surfaced[i].step)

C16_SecondOpenFails ==
    heldByOther => (ser # "open" /\ (opens > 0 => OpenFailed))

\* select_port was called and returned None: no endpoint was found or the
\* operator selected none.
NoPortSelected ==
    /\ args.port = "none"
    /\ \/ prog = "test_ui" /\ ~args.list /\ pc # "main"
       \/ prog = "test_config" /\ pc # "select"

\* C17: whenever select_port returns None the tool prints an explicit
\* message, exits with a non-zero status and never opens a transport; a
\* tool that selects its endpoint opens one only for the port selected.
C17_NoPortExitsNonZero ==
    /\ NoPortSelected =>
           /\ "no_port_selected" \in printed
           /\ pc = "exited" /\ exitStatus # 0 /\ exitStatus # -1
           /\ opens = 0 /\ ser = "none" /\ outLog = << >>
    /\ (prog \in {"test_ui", "test_config"} /\ opens > 0) => args.port # "none"

\* test_config.py ended on the message with nothing opened.
C17_Witness ==
    /\ prog = "test_config" /\ NoPortSelected
    /\ pc = "exited" /\ exitStatus = 1 /\ opens = 0

\* C18: every command a scripted flow writes to the transport is the
\* command text of its step followed by exactly the two bytes "\r\n".
C18_CommandsEndInCRLF ==
    flow \in Flows =>
        \A i \in DOMAIN outLog :
            /\ i <= Len(Steps(flow))
            /\ outLog[i].data = Steps(flow)[i].cmd \o "\r\n"

\* C19: listing endpoints is idempotent: with the device paths unchanged,
\* two calls of the same listing function return the same paths in the
\* same order, whatever order the enumeration yields them in.
C19_ListingIdempotent ==
    \A i, j \in DOMAIN calls :
        calls[i].fn = calls[j].fn => calls[i].result = calls[j].result

\* The paths of the discovered port list.
PortSet == { ports[i] : i \in DOMAIN ports }

\* The answer is the integer n.
Denotes(t, n) == IsInt(t) /\ IntOf(t) = n

\* An answer that is neither a quit nor the number of a listed port.
Reprompts(t) ==
    /\ t \notin {"q", "Q"}
    /\ ~ \E n \in 1 .. Len(ports) : Denotes(t, n)

\* C20: select_port returns None or a member of the discovered port list,
\* which is the usbmodem paths present.  It returns None when there is no
\* port, on 'q' or 'Q' and on an interrupt; it returns ports[n-1] exactly
\* when the operator enters an integer n with 1 <= n <= len(ports); any
\* other answer leaves it prompting; it returns a port without prompting
\* exactly when auto_select is true and one port was found.
C20_SelectPortResult ==
    prog = "select_port" =>
        /\ pc = "sel_start" => (selected = "unset" /\ prompts = 0)
        /\ pc = "sel_menu" =>
               /\ selected = "unset" /\ ~interrupted
               /\ ports # << >> /\ ~(autoSelect /\ Len(ports) = 1)
               /\ prompts > 0 => Reprompts(selection)
        /\ pc = "sel_returned" =>
               /\ selected = "none" \/ selected \in PortSet
               /\ PortSet = { d \in devs : Matches(d, "/dev/tty.usbmodem*") }
               /\ ports = << >> =>
                      (selected = "none" /\ "no_ports_found" \in printed)
               /\ prompts = 0 <=>
                      (ports = << >> \/ (autoSelect /\ Len(ports) = 1))
               /\ (prompts = 0 /\ ports # << >>) => selected = ports[1]
               /\ prompts > 0 =>
                      IF interrupted \/ selection \in {"q", "Q"}
                      THEN selected = "none"
                      ELSE \E n \in 1 .. Len(ports) :
                               Denotes(selection, n) /\ selected = ports[n]

\* After an answer that was refused the operator picked the second of two
\* ports.
C20_Witness ==
    /\ prog = "select_port" /\ pc = "sel_returned"
    /\ prompts = 2 /\ Len(ports) = 2
    /\ selection = "2" /\ selected = ports[2]

\* The scripted flows of test_ui.py.
UiFlows == {"run_automated_test", "write_factory_defaults",
            "erase_config_storage"}

\* C21: a scripted flow of test_ui.py that opened the transport has closed
\* it by the time the function returns, on every exit path, the one where
\* a reset, write, flush or read raised part-way through included.
C21_FlowClosesTransport ==
    (flow \in UiFlows /\ pc \in {"f_return", "exited"} /\ opens > 0
         /\ ~OpenFailed)
        => (ser = "closed" /\ closes = 1)

\* The function has returned.
FlowReturned == pc \in {"f_return", "exited"}

\* C22: write_factory_defaults writes "config write_default" only after
\* "config unlock_default" was written and the wait of that step is over:
\* nothing is written while step 1 waits for or reads its response, and
\* the second write is made at step 2 only.  It returns True if and only
\* if the answer was "YES" and the transport never raised, whatever the
\* device sent, nothing at all included; then both commands were written.
C22_FactoryDefaultsOutcome ==
    /\ [](flow = "write_factory_defaults" =>
             /\ \A i \in DOMAIN outLog :
                    outLog[i].data = "config write_default\r\n" =>
                        (i = 2 /\ outLog[1].data = "config unlock_default\r\n")
             /\ (step = 1 /\ pc \in {"f_check", "f_read"}) => Len(outLog) = 1
             /\ FlowReturned =>
                    /\ success \in {"True", "False"}
                    /\ success = "True" <=> (confirm = "YES" /\ failedAt = -1)
                    /\ success = "True" => Len(outLog) = 2)
    /\ [][(flow = "write_factory_defaults" /\ Len(outLog') = 2
              /\ Len(outLog) = 1) => (pc = "f_write" /\ step = 2)]_vars

\* The flow returned True although the device answered neither step.
C22_Witness ==
    /\ flow = "write_factory_defaults" /\ FlowReturned
    /\ success = "True" /\ confirm = "YES"
    /\ emitted = 0
    /\ \A i \in DOMAIN surfaced : surfaced[i].kind = "none"
    /\ Len(outLog) = 2

====
